---- MODULE Spec2Model ----
(***************************************************************************)
(* Model of the vk-clips bot: the Telegram front end (main.py) that guards *)
(* one shared VKWorker with a per-chat busy flag, and the worker's         *)
(* run_cycle pipeline (vk_worker.py): fetch, concurrent download and       *)
(* uniqueize under a semaphore, sequential publish.                        *)
(*                                                                         *)
(* asyncio is cooperative: one action of the model is the code a coroutine *)
(* runs between two suspension points (awaits on the network, on a worker  *)
(* thread or on a timer).                                                  *)
(***************************************************************************)
EXTENDS Integers, Sequences, FiniteSets, TLC

\* ------------------------------------------------------------------ bounds
MaxChats == 2
MaxRuns == 2
MaxItems == 3
MaxInputs == 3
BotItems == 1
MaxBuilds == 2
MaxTopCount == 3
MaxDelay == 40
\* asyncio.Semaphore(5)
SemaphorePermits == 5
\* `from config import ... PROCESSING_DELAY, ... TOP_COUNT` in vk_worker.py: the
\* values config.py held when vk_worker was imported
TOP_COUNT == 2
PROCESSING_DELAY == 20

Chats == 1..MaxChats
Runs == 1..MaxRuns
MaxOf(a, b) == IF a >= b THEN a ELSE b
Items == 1..MaxOf(MaxItems, SemaphorePermits + 1)
Coros == {0} \cup Items   \* 0: run_cycle itself, i: process_item(i, item)

VARIABLES
  env,              \* what the outside world does in this behaviour (fixed)
  inputsLeft,       \* user inputs (commands, buttons) still to come
  log_status,       \* main.log_status: chat -> which dict object it holds
  entry,            \* the dict objects: chat -> kind -> fields
  current_use_group,\* main.current_use_group
  current_top_count,\* main.current_top_count
  current_processing_delay, \* main.current_processing_delay
  worker_group_id,  \* worker.group_id of the shared VKWorker
  worker_TOP_COUNT, \* worker.TOP_COUNT, an attribute run_cycle_for_chat sets
  worker_PROCESSING_DELAY, \* worker.PROCESSING_DELAY, likewise
  files,            \* contents of VIDEOS_DIR
  rchat,            \* run -> chat_id of run_cycle_for_chat
  rentry,           \* run -> the dict object bound to its local `entry`
  rgroup,           \* run -> the group_id this run assigned to the worker
  rconf,            \* run -> the count and the delay this run assigned to it
  pc,               \* run -> position of run_cycle_for_chat / run_cycle
  state,            \* run -> run_cycle's state dict
  enriched,         \* run -> run_cycle's enriched list
  tpc,              \* run -> item -> position of process_item
  sem,              \* run -> value of the semaphore
  pidx,             \* run -> index of the publish loop in enriched
  cb,               \* run -> coroutine -> progress callback in flight
  seen,             \* run -> stage values of the snapshots, in order
  rlAt,             \* run -> publish index whose reserve hit the rate limit
  calls,            \* run -> publish index -> the remote steps begun for it,
                    \* and "rate_limited" after a call the rate limit refused
  used,             \* run -> the count, the delay and the group_id it has used
  notices,          \* chat -> "already running" notices sent to it
  item,             \* the item dict handed to build_description
  descs             \* the descriptions build_description returned, in order

vars == <<env, inputsLeft, log_status, entry, current_use_group, current_top_count,
          current_processing_delay, worker_group_id, worker_TOP_COUNT,
          worker_PROCESSING_DELAY,
          files, rchat, rentry, rgroup, rconf, pc, state, enriched, tpc, sem, pidx, cb,
          seen, rlAt, calls, used, notices, item, descs>>

botVars == <<log_status, entry, current_use_group, current_top_count,
             current_processing_delay, worker_group_id, worker_TOP_COUNT,
             worker_PROCESSING_DELAY, notices>>
runVars == <<rchat, rentry, rgroup, rconf, pc, state, enriched, tpc, sem, pidx, cb, seen,
             rlAt, calls, used>>

\* ------------------------------------------------------------- data shapes
Kinds == {"bare", "full"}
NoCb == "none"

FaultKinds == {"clean", "fetch", "download", "toolong", "transform", "api",
               "ratelimit", "upload", "cb", "botmsg"}

\* state = {...} at the top of run_cycle; messages is kept as its length
InitState ==
  [stage |-> "init", total |-> 0, downloaded |-> 0, uniqueized |-> 0,
   uploaded |-> 0, published |-> 0, failed |-> 0, items |-> <<>>, nmsgs |-> 0]

\* the {} that log_status.setdefault(chat_id, {}) creates
BareEntry ==
  [message_id |-> FALSE, busy |-> FALSE, use_auto_delay |-> FALSE, last_state |-> 0]

\* the dict update_log_message stores after bot.send_message
NewEntry ==
  [message_id |-> TRUE, busy |-> FALSE, use_auto_delay |-> FALSE, last_state |-> 0]

\* a run before run_cycle_for_chat has set the worker's attributes, and before
\* run_cycle has read its count, its delay and the worker's group_id
Unset == -1
NoConf == [top |-> Unset, delay |-> Unset]
NoUse == [count |-> Unset, sleep |-> Unset, create_group |-> "unread", edit_group |-> "unread"]

Append1(s, n) == [s EXCEPT !.nmsgs = @ + n]

\* ------------------------------------------------------------------- Init
\* envs: what the outside world may do (the chats that pass the ADMIN_CHAT_ID
\* guard, the size of the top list, the links that can be downloaded, the
\* faults that can happen); started: whether /start has already created a
\* chat's log message; autos: whether auto_delay_btn has been pressed on it
InitIdle(envs, inputs, started, autos, groups) ==
  /\ env \in envs
  /\ inputsLeft = inputs
  /\ log_status \in [Chats -> started \cup {"none"}]
  /\ \A c \in Chats : IF c \in env.chats THEN log_status[c] \in started
                                          ELSE log_status[c] = "none"
  /\ entry \in [Chats -> [Kinds -> {BareEntry} \cup
                    {[NewEntry EXCEPT !.use_auto_delay = a] : a \in autos}]]
  /\ \A c \in Chats : /\ entry[c]["bare"] = BareEntry
                      /\ entry[c]["full"].message_id
                      /\ log_status[c] = "none" => ~entry[c]["full"].use_auto_delay
  /\ current_use_group \in groups
  /\ current_top_count = TOP_COUNT
  /\ current_processing_delay = PROCESSING_DELAY
  /\ worker_group_id = "GROUP_ID"
  /\ worker_TOP_COUNT = Unset
  /\ worker_PROCESSING_DELAY = Unset
  /\ files = {}
  /\ rchat = [r \in Runs |-> 0]
  /\ rentry = [r \in Runs |-> "bare"]
  /\ rgroup = [r \in Runs |-> "GROUP_ID"]
  /\ rconf = [r \in Runs |-> NoConf]
  /\ pc = [r \in Runs |-> "idle"]
  /\ state = [r \in Runs |-> InitState]
  /\ enriched = [r \in Runs |-> <<>>]
  /\ tpc = [r \in Runs |-> [i \in Items |-> "none"]]
  /\ sem = [r \in Runs |-> SemaphorePermits]
  /\ pidx = [r \in Runs |-> 0]
  /\ cb = [r \in Runs |-> [k \in Coros |-> NoCb]]
  /\ seen = [r \in Runs |-> <<>>]
  /\ rlAt = [r \in Runs |-> 0]
  /\ calls = [r \in Runs |-> [j \in Items |-> << >>]]
  /\ used = [r \in Runs |-> NoUse]
  /\ notices = [c \in Chats |-> 0]

\* the same, and build_description is not looked at on its own
InitWith(envs, inputs, started, autos, groups) ==
  /\ InitIdle(envs, inputs, started, autos, groups)
  /\ item = << >>
  /\ descs = << >>

\* ------------------------------------------------- the progress callback
\* _cb(state) up to the await inside update_log_message: the text is rendered
\* from the state as it is now, log_status[chat_id]["last_state"] is bound to
\* the state, and update_log_message sends a new log message or edits the
\* existing one. Every call of progress_cb follows an append to
\* state["messages"] or a change of state["stage"], so the text is a new one
\* and the `text != entry.get("last_text")` test passes; should two cycles of
\* one chat render the same text, update_log_message returns without a bot
\* call, which is the edit returning at once. last_text and last_reply_markup
\* have no other use and are left out of the dicts.
CbOp(ls, en, c) == IF ~en[c][ls[c]].message_id THEN "send" ELSE "edit"

\* what the awaited bot call leaves behind when it returns
CbFinishStatus(ls, c, op) == IF op = "send" THEN [ls EXCEPT ![c] = "full"] ELSE ls

CbFinishEntry(en, c, op) == IF op = "send" THEN [en EXCEPT ![c]["full"] = NewEntry] ELSE en

Observe(sq, st) == IF sq # <<>> /\ sq[Len(sq)] = st THEN sq ELSE Append(sq, st)

\* log_status and the dicts once the pending callback of coroutine k returned
AfterCbStatus(r, k) == CbFinishStatus(log_status, rchat[r], cb[r][k])
AfterCbEntry(r, k) == CbFinishEntry(entry, rchat[r], cb[r][k])

\* coroutine k of run r (chat c) stores s as the state and awaits
\* progress_cb(state); ls and en are log_status and the dicts at that moment
CallCb(r, c, k, s, ls, en) ==
  /\ log_status' = ls
  /\ entry' = [en EXCEPT ![c][ls[c]].last_state = r]
  /\ cb' = [cb EXCEPT ![r][k] = CbOp(ls, en, c)]
  /\ state' = [state EXCEPT ![r] = s]
  /\ seen' = [seen EXCEPT ![r] = Observe(@, s.stage)]

\* the pending callback of coroutine k returns and the coroutine goes on
\* without calling it again
ReturnCb(r, k) ==
  /\ log_status' = AfterCbStatus(r, k)
  /\ entry' = AfterCbEntry(r, k)
  /\ cb' = [cb EXCEPT ![r][k] = NoCb]

\* the finally block of run_cycle_for_chat, on the dict bound to `entry`
Finally(en, r) ==
  [en EXCEPT ![rchat[r]][rentry[r]].busy = FALSE,
             ![rchat[r]][rentry[r]].use_auto_delay = FALSE]

\* ------------------------------------------------------------ main.py
FreeRuns == {r \in Runs : pc[r] = "idle"}
FirstFree == CHOOSE r \in FreeRuns : \A q \in FreeRuns : r <= q

\* run_cycle from its first line to its first await: the state dict,
\* clean_videos_dir() and the first progress_cb(state). ls, en: log_status and
\* the dicts as run_cycle_for_chat left them.
StartCycle(r, c, ls, en) ==
  \E out \in {"ok"} \cup (env.faults \cap {"clean"}) :
    IF out = "ok"
    THEN /\ files' = {}
         /\ CallCb(r, c, 0, Append1(InitState, 1), ls, en)
         /\ pc' = [pc EXCEPT ![r] = "cb249"]
    ELSE \* PermissionError leaves run_cycle: except branch of run_cycle_for_chat
         /\ log_status' = ls
         /\ entry' = en
         /\ pc' = [pc EXCEPT ![r] = "err_msg"]
         /\ state' = [state EXCEPT ![r] = InitState]
         /\ UNCHANGED <<files, cb, seen>>

\* mutant: the busy test sits inside the try, so the finally block runs too
AlreadyRunning_RunsFinally(c) ==
  /\ notices' = [notices EXCEPT ![c] = @ + 1]
  /\ entry' = [entry EXCEPT ![c][log_status[c]].busy = FALSE,
                            ![c][log_status[c]].use_auto_delay = FALSE]
  /\ UNCHANGED <<env, item, descs, log_status, current_use_group, current_top_count, current_processing_delay, worker_group_id, worker_TOP_COUNT, worker_PROCESSING_DELAY, files, runVars>>

\* `if entry.get("busy"):` the notice is sent and the call returns
AlreadyRunning(c) ==
  /\ notices' = [notices EXCEPT ![c] = @ + 1]
  /\ UNCHANGED <<env, item, descs, log_status, entry, current_use_group, current_top_count, current_processing_delay, worker_group_id, worker_TOP_COUNT, worker_PROCESSING_DELAY, files, runVars>>

\* run_cmd / restart_btn -> run_cycle_for_chat(chat_id)
RunRequest(c) ==
  /\ inputsLeft > 0
  /\ c \in env.chats
  /\ inputsLeft' = inputsLeft - 1
  /\ LET k == IF log_status[c] = "none" THEN "bare" ELSE log_status[c]
         ls == [log_status EXCEPT ![c] = k]          \* setdefault(chat_id, {})
     IN IF entry[c][k].busy
        THEN AlreadyRunning(c)
        ELSE /\ FreeRuns # {}
             /\ LET r == FirstFree
                    en == [entry EXCEPT ![c][k].busy = TRUE]
                    gid == IF current_use_group THEN "GROUP_ID" ELSE "None"
                    delay == IF entry[c][k].use_auto_delay /\ current_top_count > 0
                             THEN 3600 \div current_top_count
                             ELSE current_processing_delay
                IN /\ rchat' = [rchat EXCEPT ![r] = c]
                   /\ rentry' = [rentry EXCEPT ![r] = k]
                   /\ worker_TOP_COUNT' = current_top_count
                   /\ worker_group_id' = gid
                   /\ worker_PROCESSING_DELAY' = delay
                   /\ rgroup' = [rgroup EXCEPT ![r] = gid]
                   /\ rconf' = [rconf EXCEPT ![r] = [top |-> current_top_count,
                                                     delay |-> delay]]
                   /\ IF entry[c][k].use_auto_delay
                      THEN \* await bot.send_message("auto delay ...")
                           /\ pc' = [pc EXCEPT ![r] = "auto_msg"]
                           /\ log_status' = ls
                           /\ entry' = en
                           /\ UNCHANGED <<files, state, cb, seen>>
                      ELSE StartCycle(r, c, ls, en)
                   /\ UNCHANGED <<env, item, descs, current_use_group, current_top_count, current_processing_delay, notices, enriched, tpc, sem, pidx, rlAt, calls, used>>

\* the auto-delay notice was sent (or sending it raised): run_cycle starts
AutoMsgDone(r) ==
  /\ pc[r] = "auto_msg"
  /\ \E out \in {"ok"} \cup (env.faults \cap {"botmsg"}) :
       IF out = "ok"
       THEN StartCycle(r, rchat[r], log_status, entry)
       ELSE /\ pc' = [pc EXCEPT ![r] = "err_msg"]
            /\ UNCHANGED <<log_status, entry, files, state, cb, seen>>
  /\ UNCHANGED <<env, item, descs, inputsLeft, notices, current_use_group, current_top_count, current_processing_delay, worker_group_id, worker_TOP_COUNT, worker_PROCESSING_DELAY, rchat, rentry,
                 rgroup, rconf, enriched, tpc, sem, pidx, rlAt, calls, used>>

\* the except branch's bot.send_message returned or raised: finally
ErrMsgDone(r) ==
  /\ pc[r] = "err_msg"
  /\ pc' = [pc EXCEPT ![r] = "failed"]
  /\ entry' = Finally(entry, r)
  /\ UNCHANGED <<env, item, descs, inputsLeft, log_status, current_use_group, current_top_count, current_processing_delay, worker_group_id, worker_TOP_COUNT, worker_PROCESSING_DELAY, notices,
                 files, rchat, rentry, rgroup, rconf, state, enriched, tpc, sem, pidx, cb, seen, rlAt, calls, used>>

\* toggle_publish_mode_btn
TogglePublishMode ==
  /\ inputsLeft > 0
  /\ inputsLeft' = inputsLeft - 1
  /\ current_use_group' = ~current_use_group
  /\ UNCHANGED <<current_top_count, current_processing_delay>>
  /\ UNCHANGED <<env, item, descs, log_status, entry, worker_group_id, worker_TOP_COUNT, worker_PROCESSING_DELAY, notices, files, runVars>>

\* what no settings button changes
SettingsFrame ==
  UNCHANGED <<env, item, descs, log_status, entry, current_use_group, worker_group_id,
              worker_TOP_COUNT, worker_PROCESSING_DELAY, notices, files, runVars>>

\* decrease_top_count_btn
DecreaseTopCount ==
  /\ inputsLeft > 0
  /\ inputsLeft' = inputsLeft - 1
  /\ current_top_count' = IF current_top_count > 1 THEN current_top_count - 1
                                                   ELSE current_top_count
  /\ UNCHANGED current_processing_delay
  /\ SettingsFrame

\* increase_top_count_btn
IncreaseTopCount ==
  /\ inputsLeft > 0
  /\ current_top_count < MaxTopCount
  /\ inputsLeft' = inputsLeft - 1
  /\ current_top_count' = current_top_count + 1
  /\ UNCHANGED current_processing_delay
  /\ SettingsFrame

\* decrease_delay_btn
DecreaseDelay ==
  /\ inputsLeft > 0
  /\ inputsLeft' = inputsLeft - 1
  /\ current_processing_delay' = IF current_processing_delay >= 20
                                 THEN current_processing_delay - 20
                                 ELSE current_processing_delay
  /\ UNCHANGED current_top_count
  /\ SettingsFrame

\* increase_delay_btn
IncreaseDelay ==
  /\ inputsLeft > 0
  /\ current_processing_delay < MaxDelay
  /\ inputsLeft' = inputsLeft - 1
  /\ current_processing_delay' = current_processing_delay + 20
  /\ UNCHANGED current_top_count
  /\ SettingsFrame

\* auto_delay_btn (the button lives on the chat's log message)
AutoDelay(c) ==
  /\ inputsLeft > 0
  /\ c \in env.chats
  /\ log_status[c] # "none"
  /\ inputsLeft' = inputsLeft - 1
  /\ entry' = [entry EXCEPT ![c][log_status[c]].use_auto_delay = TRUE]
  /\ UNCHANGED <<env, item, descs, log_status, current_use_group, current_top_count, current_processing_delay, worker_group_id, worker_TOP_COUNT, worker_PROCESSING_DELAY, notices, files, runVars>>

\* ------------------------------------------- vk_worker.py: run_cycle
Cb249Done(r) ==
  /\ pc[r] = "cb249"
  /\ CallCb(r, rchat[r], 0, [state[r] EXCEPT !.stage = "fetch_top"],
            AfterCbStatus(r, 0), AfterCbEntry(r, 0))
  /\ pc' = [pc EXCEPT ![r] = "cb253"]
  /\ UNCHANGED <<env, item, descs, inputsLeft, notices, current_use_group, current_top_count, current_processing_delay, worker_group_id, worker_TOP_COUNT, worker_PROCESSING_DELAY, files, rchat,
                 rentry, rgroup, rconf, enriched, tpc, sem, pidx, rlAt, calls, used>>

\* await self.get_top_videos(session, TOP_COUNT) starts
Cb253Done(r) ==
  /\ pc[r] = "cb253"
  /\ ReturnCb(r, 0)
  /\ pc' = [pc EXCEPT ![r] = "fetch"]
  /\ used' = [used EXCEPT ![r].count = TOP_COUNT]
  /\ UNCHANGED <<env, item, descs, inputsLeft, notices, current_use_group, current_top_count, current_processing_delay, worker_group_id, worker_TOP_COUNT, worker_PROCESSING_DELAY, files, rchat,
                 rentry, rgroup, rconf, state, enriched, tpc, sem, pidx, seen, rlAt, calls>>

\* get_top_videos returns the items, or [] after any error
FetchDone(r) ==
  /\ pc[r] = "fetch"
  /\ \E n \in {env.top} \cup (IF "fetch" \in env.faults THEN {0} ELSE {}) :
       /\ CallCb(r, rchat[r], 0, Append1([state[r] EXCEPT !.total = n], 1),
                 log_status, entry)
       /\ pc' = [pc EXCEPT ![r] = IF n = 0 THEN "cb258" ELSE "cb262"]
  /\ UNCHANGED <<env, item, descs, inputsLeft, notices, current_use_group, current_top_count, current_processing_delay, worker_group_id, worker_TOP_COUNT, worker_PROCESSING_DELAY, files, rchat,
                 rentry, rgroup, rconf, enriched, tpc, sem, pidx, rlAt, calls, used>>

\* `return state` on the empty list, then run_cycle_for_chat's finally
Cb258Done(r) ==
  /\ pc[r] = "cb258"
  /\ log_status' = AfterCbStatus(r, 0)
  /\ entry' = Finally(AfterCbEntry(r, 0), r)
  /\ cb' = [cb EXCEPT ![r][0] = NoCb]
  /\ pc' = [pc EXCEPT ![r] = "returned"]
  /\ UNCHANGED <<env, item, descs, inputsLeft, notices, current_use_group, current_top_count, current_processing_delay, worker_group_id, worker_TOP_COUNT, worker_PROCESSING_DELAY, files, rchat,
                 rentry, rgroup, rconf, state, enriched, tpc, sem, pidx, seen, rlAt, calls, used>>

\* enriched = [], semaphore = asyncio.Semaphore(5), the tasks, await gather
Cb262Done(r) ==
  /\ pc[r] = "cb262"
  /\ ReturnCb(r, 0)
  /\ pc' = [pc EXCEPT ![r] = "gather"]
  /\ enriched' = [enriched EXCEPT ![r] = <<>>]
  /\ sem' = [sem EXCEPT ![r] = SemaphorePermits]
  /\ tpc' = [tpc EXCEPT ![r] = [i \in Items |->
                                  IF i <= state[r].total THEN "new" ELSE "none"]]
  /\ UNCHANGED <<env, item, descs, inputsLeft, notices, current_use_group, current_top_count, current_processing_delay, worker_group_id, worker_TOP_COUNT, worker_PROCESSING_DELAY, files, rchat,
                 rentry, rgroup, rconf, state, pidx, seen, rlAt, calls, used>>

\* ------------------------------------------------------- process_item
\* mutant: process_item does not take the semaphore
CanAcquire_Always(r) == TRUE

\* `async with semaphore:` can be entered
CanAcquire(r) == sem[r] > 0

\* mutant: the download failure is logged but not counted
DownloadFailed_NotCounted(s) == Append1(s, 1)

\* the counters and messages of the branches of process_item
DownloadFailed(s) == Append1([s EXCEPT !.failed = @ + 1], 1)
Downloaded(s) == Append1([s EXCEPT !.downloaded = @ + 1], 2)
UniqueizeFailed(s) == Append1([s EXCEPT !.failed = @ + 1], 1)
Uniqueized(s) == Append1([s EXCEPT !.uniqueized = @ + 1], 1)

\* tasks take the semaphore in the order gather created them (FIFO waiters)
TaskStart(r, i) ==
  /\ tpc[r][i] = "new"
  /\ \A j \in Items : j < i => tpc[r][j] # "new"
  /\ CanAcquire(r)
  /\ sem' = [sem EXCEPT ![r] = @ - 1]
  /\ tpc' = [tpc EXCEPT ![r][i] = "cb272"]
  /\ CallCb(r, rchat[r], i, Append1(state[r], 1), log_status, entry)
  /\ UNCHANGED <<env, item, descs, inputsLeft, notices, current_use_group, current_top_count, current_processing_delay, worker_group_id, worker_TOP_COUNT, worker_PROCESSING_DELAY, files, rchat,
                 rentry, rgroup, rconf, pc, enriched, pidx, rlAt, calls, used>>

\* await self.download_one(link, VIDEOS_DIR) starts
Cb272Done(r, i) ==
  /\ tpc[r][i] = "cb272"
  /\ ReturnCb(r, i)
  /\ tpc' = [tpc EXCEPT ![r][i] = "download"]
  /\ UNCHANGED <<env, item, descs, inputsLeft, notices, current_use_group, current_top_count, current_processing_delay, worker_group_id, worker_TOP_COUNT, worker_PROCESSING_DELAY, files, rchat,
                 rentry, rgroup, rconf, pc, state, enriched, sem, pidx, seen, rlAt, calls, used>>

\* download_one returned (a link outside env.live cannot be fetched).
\* "toolong": _ydl_download has fetched the file (extract_info with
\* download=True) and returns None because info's duration is over 60;
\* "download": yt-dlp raised. Both reach process_item as the same err; the
\* record's duration field keeps what yt-dlp reported, to tell them apart.
DownloadDone(r, i) ==
  /\ tpc[r][i] = "download"
  /\ \E out \in (IF i \in env.live THEN {"ok"} ELSE {"download"})
                  \cup (env.faults \cap {"download", "toolong"}) :
       /\ files' = IF out = "download" THEN files ELSE files \cup {<<i, "orig">>}
       /\ IF out = "ok"
          THEN /\ CallCb(r, rchat[r], i, Downloaded(state[r]), log_status, entry)
               /\ tpc' = [tpc EXCEPT ![r][i] = "cb287"]
               /\ UNCHANGED enriched
          ELSE /\ CallCb(r, rchat[r], i, DownloadFailed(state[r]), log_status, entry)
               /\ enriched' = [enriched EXCEPT ![r] = Append(@,
                      [item |-> i, path |-> "none", status |-> "download_failed",
                       duration |-> IF out = "toolong" THEN "over" ELSE "unknown"])]
               /\ tpc' = [tpc EXCEPT ![r][i] = "cb279"]
  /\ UNCHANGED <<env, item, descs, inputsLeft, notices, current_use_group, current_top_count, current_processing_delay, worker_group_id, worker_TOP_COUNT, worker_PROCESSING_DELAY, rchat,
                 rentry, rgroup, rconf, pc, sem, pidx, rlAt, calls, used>>

\* `return` after the download failure; `async with semaphore` releases
Cb279Done(r, i) ==
  /\ tpc[r][i] = "cb279"
  /\ ReturnCb(r, i)
  /\ tpc' = [tpc EXCEPT ![r][i] = "done"]
  /\ sem' = [sem EXCEPT ![r] = @ + 1]
  /\ UNCHANGED <<env, item, descs, inputsLeft, notices, current_use_group, current_top_count, current_processing_delay, worker_group_id, worker_TOP_COUNT, worker_PROCESSING_DELAY, files, rchat,
                 rentry, rgroup, rconf, pc, state, enriched, pidx, seen, rlAt, calls, used>>

\* await self.uniqueize_one(path) starts
Cb287Done(r, i) ==
  /\ tpc[r][i] = "cb287"
  /\ ReturnCb(r, i)
  /\ tpc' = [tpc EXCEPT ![r][i] = "uniqueize"]
  /\ UNCHANGED <<env, item, descs, inputsLeft, notices, current_use_group, current_top_count, current_processing_delay, worker_group_id, worker_TOP_COUNT, worker_PROCESSING_DELAY, files, rchat,
                 rentry, rgroup, rconf, pc, state, enriched, sem, pidx, seen, rlAt, calls, used>>

\* uniqueize_one returned. files holds the paths of VIDEOS_DIR: <<i, "orig">>
\* is the download of item i and <<i, "unique">> its `{base}_unique{ext}`.
\* "ok": the output exists and is not empty, os.remove(path) and the new path
\* is returned. "missing": ffmpeg cannot open its input and writes nothing.
\* "transform": ffmpeg exits non-zero, or exits 0 with an empty output;
\* _uniqueize_video returns None and removes nothing, so the output file
\* ffmpeg has created (or none, if it failed before creating it) stays.
UniqueizeDone(r, i) ==
  /\ tpc[r][i] = "uniqueize"
  /\ \E out \in (IF <<i, "orig">> \in files THEN {"ok"} ELSE {"missing"})
                  \cup (env.faults \cap {"transform"}) :
       IF out = "ok"
       THEN /\ files' = (files \ {<<i, "orig">>}) \cup {<<i, "unique">>}
            /\ CallCb(r, rchat[r], i, Uniqueized(state[r]), log_status, entry)
            /\ enriched' = [enriched EXCEPT ![r] = Append(@,
                   [item |-> i, path |-> "unique", status |-> "uniqueized",
                    duration |-> "within"])]
       ELSE /\ \E left \in (IF out = "transform" THEN BOOLEAN ELSE {FALSE}) :
                 files' = IF left THEN files \cup {<<i, "unique">>} ELSE files
            /\ CallCb(r, rchat[r], i, UniqueizeFailed(state[r]), log_status, entry)
            /\ enriched' = [enriched EXCEPT ![r] = Append(@,
                   [item |-> i, path |-> "none", status |-> "uniqueize_failed",
                    duration |-> "within"])]
  /\ tpc' = [tpc EXCEPT ![r][i] = "cb297"]
  /\ UNCHANGED <<env, item, descs, inputsLeft, notices, current_use_group, current_top_count, current_processing_delay, worker_group_id, worker_TOP_COUNT, worker_PROCESSING_DELAY, rchat,
                 rentry, rgroup, rconf, pc, sem, pidx, rlAt, calls, used>>

\* process_item ends; `async with semaphore` releases
Cb297Done(r, i) ==
  /\ tpc[r][i] = "cb297"
  /\ ReturnCb(r, i)
  /\ tpc' = [tpc EXCEPT ![r][i] = "done"]
  /\ sem' = [sem EXCEPT ![r] = @ + 1]
  /\ UNCHANGED <<env, item, descs, inputsLeft, notices, current_use_group, current_top_count, current_processing_delay, worker_group_id, worker_TOP_COUNT, worker_PROCESSING_DELAY, files, rchat,
                 rentry, rgroup, rconf, pc, state, enriched, pidx, seen, rlAt, calls, used>>

\* the awaited bot call of a callback raises (update_log_message re-raises a
\* TelegramBadRequest; its other handler uses a logger main.py never defines):
\* the exception leaves the coroutine that awaits the callback
CbRaise(r, k) ==
  /\ "cb" \in env.faults
  /\ cb[r][k] # NoCb
  /\ cb' = [cb EXCEPT ![r][k] = NoCb]
  /\ IF k = 0
     THEN /\ pc' = [pc EXCEPT ![r] = "err_msg"]
          /\ UNCHANGED <<tpc, sem>>
     ELSE /\ tpc' = [tpc EXCEPT ![r][k] = "raised"]
          /\ sem' = [sem EXCEPT ![r] = @ + 1]
          /\ UNCHANGED pc
  /\ UNCHANGED <<env, item, descs, inputsLeft, botVars, files, rchat, rentry, rgroup, rconf, state,
                 enriched, pidx, seen, rlAt, calls, used>>

\* gather re-raises the first exception of a task; the other tasks go on
GatherRaise(r) ==
  /\ pc[r] = "gather"
  /\ \E i \in Items : tpc[r][i] = "raised"
  /\ pc' = [pc EXCEPT ![r] = "err_msg"]
  /\ UNCHANGED <<env, item, descs, inputsLeft, botVars, files, rchat, rentry, rgroup, rconf, state,
                 enriched, tpc, sem, pidx, cb, seen, rlAt, calls, used>>

\* ---------------------------------------------- run_cycle: publish loop
\* mutant: the loop ends at the first record whose publication failed
NextPub_StopAfterFailure(e, k) ==
  LET js == {j \in k..Len(e) : e[j].path # "none"}
  IN IF js = {} \/ \E j \in 1..(k - 1) : e[j].status = "upload_failed"
     THEN 0 ELSE CHOOSE j \in js : \A q \in js : j <= q

\* first index >= k of a record with a path (`if not rec["path"]: continue`),
\* or 0 when the loop is over
NextPub(e, k) ==
  LET js == {j \in k..Len(e) : e[j].path # "none"}
  IN IF js = {} THEN 0 ELSE CHOOSE j \in js : \A q \in js : j <= q

\* the loop goes on from index k: the next record with a path is announced,
\* or the loop and the session end: stage = "done" and the last callback
Advance(r, k, s, e, ls, en) ==
  LET j == NextPub(e, k)
  IN IF j # 0
     THEN /\ pidx' = [pidx EXCEPT ![r] = j]
          /\ CallCb(r, rchat[r], 0, Append1(s, 1), ls, en)
          /\ pc' = [pc EXCEPT ![r] = "cb310"]
     ELSE /\ pidx' = [pidx EXCEPT ![r] = Len(e) + 1]
          /\ CallCb(r, rchat[r], 0, Append1([s EXCEPT !.stage = "done"], 1), ls, en)
          /\ pc' = [pc EXCEPT ![r] = "cb344"]

\* mutant: only published is incremented
Published_NoUploaded(s) == Append1([s EXCEPT !.published = @ + 1], 1)

\* mutant: the except branch does not relabel the record
SetStatus_Kept(e, j, st) == IF st = "upload_failed" THEN e ELSE [e EXCEPT ![j].status = st]

\* the counters and messages of the two ends of the loop body
Published(s) == Append1([s EXCEPT !.uploaded = @ + 1, !.published = @ + 1], 1)

\* mutant: the except branch counts the failure twice
UploadFailed_Twice(s) == Append1([s EXCEPT !.failed = @ + 2], 1)

UploadFailed(s) == Append1([s EXCEPT !.failed = @ + 1], 1)

\* rec["status"] = ...
SetStatus(e, j, st) == [e EXCEPT ![j].status = st]

\* `except Exception as e:` of the loop body
FailItem(r, ls, en) ==
  /\ enriched' = [enriched EXCEPT ![r] = SetStatus(@, pidx[r], "upload_failed")]
  /\ CallCb(r, rchat[r], 0, UploadFailed(state[r]), ls, en)
  /\ pc' = [pc EXCEPT ![r] = "cb340"]

\* the loop body of run r begins the remote step st for its record
Begin(r, st) == calls' = [calls EXCEPT ![r][pidx[r]] = Append(@, st)]

\* the API call of run r's record was answered: out
Answered(r, out) ==
  calls' = IF out = "ratelimit"
           THEN [calls EXCEPT ![r][pidx[r]] = Append(@, "rate_limited")]
           ELSE calls

PathOnDisk(r) == <<enriched[r][pidx[r]].item, "unique">> \in files

\* mutant: the loop starts when the first task is over (FIRST_COMPLETED)
GatherDone_FirstCompleted(r) ==
  /\ pc[r] = "gather"
  /\ \E i \in Items : tpc[r][i] = "done"
  /\ \A i \in Items : tpc[r][i] # "raised"
  /\ Advance(r, 1, state[r], enriched[r], log_status, entry)
  /\ UNCHANGED <<env, item, descs, inputsLeft, notices, current_use_group, current_top_count, current_processing_delay, worker_group_id, worker_TOP_COUNT, worker_PROCESSING_DELAY, files, rchat,
                 rentry, rgroup, rconf, enriched, tpc, sem, rlAt, calls, used>>

\* await asyncio.gather(*tasks) returns: every task is over; the for loop starts
GatherDone(r) ==
  /\ pc[r] = "gather"
  /\ \A i \in Items : tpc[r][i] \in {"none", "done"}
  /\ Advance(r, 1, state[r], enriched[r], log_status, entry)
  /\ UNCHANGED <<env, item, descs, inputsLeft, notices, current_use_group, current_top_count, current_processing_delay, worker_group_id, worker_TOP_COUNT, worker_PROCESSING_DELAY, files, rchat,
                 rentry, rgroup, rconf, enriched, tpc, sem, rlAt, calls, used>>

\* short_video_create[_from_group]: os.path.getsize(path), then the API call
Cb310Done(r) ==
  /\ pc[r] = "cb310"
  /\ used' = [used EXCEPT ![r].create_group = worker_group_id]   \* `if self.group_id:`
  /\ IF PathOnDisk(r)
     THEN /\ ReturnCb(r, 0)
          /\ pc' = [pc EXCEPT ![r] = "create"]
          /\ Begin(r, "create")
          /\ UNCHANGED <<state, enriched, seen>>
     ELSE /\ FailItem(r, AfterCbStatus(r, 0), AfterCbEntry(r, 0))
          /\ UNCHANGED calls
  /\ UNCHANGED <<env, item, descs, inputsLeft, notices, current_use_group, current_top_count, current_processing_delay, worker_group_id, worker_TOP_COUNT, worker_PROCESSING_DELAY, files, rchat,
                 rentry, rgroup, rconf, tpc, sem, pidx, rlAt>>

\* shortVideo.create answered; upload_file_to_url opens the file and posts it
CreateDone(r) ==
  /\ pc[r] = "create"
  /\ UNCHANGED used
  /\ \E out \in {"ok"} \cup (env.faults \cap {"api", "ratelimit"}) :
       /\ IF out = "ok" /\ PathOnDisk(r)
          THEN /\ pc' = [pc EXCEPT ![r] = "upload"]
               /\ Begin(r, "upload")
               /\ UNCHANGED <<log_status, entry, cb, state, enriched, seen>>
          ELSE /\ FailItem(r, log_status, entry)
               /\ Answered(r, out)
       /\ rlAt' = [rlAt EXCEPT ![r] = IF out = "ratelimit" /\ @ = 0 THEN pidx[r] ELSE @]
  /\ UNCHANGED <<env, item, descs, inputsLeft, notices, current_use_group, current_top_count, current_processing_delay, worker_group_id, worker_TOP_COUNT, worker_PROCESSING_DELAY, files, rchat,
                 rentry, rgroup, rconf, tpc, sem, pidx>>

\* mutant: a failed upload is tried a second time
UploadDone_Retry(r) ==
  /\ pc[r] = "upload"
  /\ \E out \in {"ok"} \cup (env.faults \cap {"upload"}) :
       IF out = "ok"
       THEN /\ pc' = [pc EXCEPT ![r] = "sleep"]
            /\ Begin(r, "sleep")
            /\ used' = [used EXCEPT ![r].sleep = PROCESSING_DELAY * 2]
            /\ UNCHANGED <<log_status, entry, cb, state, enriched, seen>>
       ELSE IF Len(calls[r][pidx[r]]) < 3
            THEN /\ Begin(r, "upload")
                 /\ UNCHANGED <<used, pc, log_status, entry, cb, state, enriched, seen>>
            ELSE /\ FailItem(r, log_status, entry)
                 /\ UNCHANGED <<calls, used>>
  /\ UNCHANGED <<env, item, descs, inputsLeft, notices, current_use_group, current_top_count, current_processing_delay, worker_group_id, worker_TOP_COUNT, worker_PROCESSING_DELAY, files, rchat,
                 rentry, rgroup, rconf, tpc, sem, pidx, rlAt>>

\* mutant: uploaded is counted as soon as the file upload has succeeded
UploadDone_CountsUpload(r) ==
  /\ pc[r] = "upload"
  /\ \E out \in {"ok"} \cup (env.faults \cap {"upload"}) :
       IF out = "ok"
       THEN /\ pc' = [pc EXCEPT ![r] = "sleep"]
            /\ Begin(r, "sleep")
            /\ used' = [used EXCEPT ![r].sleep = PROCESSING_DELAY * 2]
            /\ state' = [state EXCEPT ![r].uploaded = @ + 1]
            /\ UNCHANGED <<log_status, entry, cb, enriched, seen>>
       ELSE /\ FailItem(r, log_status, entry)
            /\ UNCHANGED <<calls, used>>
  /\ UNCHANGED <<env, item, descs, inputsLeft, notices, current_use_group, current_top_count, current_processing_delay, worker_group_id, worker_TOP_COUNT, worker_PROCESSING_DELAY, files, rchat,
                 rentry, rgroup, rconf, tpc, sem, pidx, rlAt>>

\* the upload answered; asyncio.sleep(PROCESSING_DELAY * 2) starts
UploadDone(r) ==
  /\ pc[r] = "upload"
  /\ \E out \in {"ok"} \cup (env.faults \cap {"upload"}) :
       IF out = "ok"
       THEN /\ pc' = [pc EXCEPT ![r] = "sleep"]
            /\ Begin(r, "sleep")
            /\ used' = [used EXCEPT ![r].sleep = PROCESSING_DELAY * 2]
            /\ UNCHANGED <<log_status, entry, cb, state, enriched, seen>>
       ELSE /\ FailItem(r, log_status, entry)
            /\ UNCHANGED <<calls, used>>
  /\ UNCHANGED <<env, item, descs, inputsLeft, notices, current_use_group, current_top_count, current_processing_delay, worker_group_id, worker_TOP_COUNT, worker_PROCESSING_DELAY, files, rchat,
                 rentry, rgroup, rconf, tpc, sem, pidx, rlAt>>

\* the settle delay is over; shortVideo.edit is sent
SleepDone(r) ==
  /\ pc[r] = "sleep"
  /\ pc' = [pc EXCEPT ![r] = "edit"]
  /\ Begin(r, "edit")
  /\ used' = [used EXCEPT ![r].edit_group = worker_group_id]   \* `if self.group_id:`
  /\ UNCHANGED <<env, item, descs, inputsLeft, botVars, files, rchat, rentry, rgroup, rconf, state,
                 enriched, tpc, sem, pidx, cb, seen, rlAt>>

\* shortVideo.edit answered; shortVideo.publish is sent, unless this is the
\* group branch and short_video_publish_from_group finds self.group_id None
\* (another run_cycle_for_chat has set it since) and raises ValueError
EditDone(r) ==
  /\ pc[r] = "edit"
  /\ UNCHANGED used
  /\ \E out \in {"ok"} \cup (env.faults \cap {"api", "ratelimit"}) :
       IF out = "ok" /\ ~(used[r].edit_group = "GROUP_ID" /\ worker_group_id = "None")
       THEN /\ pc' = [pc EXCEPT ![r] = "publish"]
            /\ Begin(r, "publish")
            /\ UNCHANGED <<log_status, entry, cb, state, enriched, seen, pidx>>
       ELSE /\ FailItem(r, log_status, entry)
            /\ Answered(r, out)
            /\ UNCHANGED pidx
  /\ UNCHANGED <<env, item, descs, inputsLeft, notices, current_use_group, current_top_count, current_processing_delay, worker_group_id, worker_TOP_COUNT, worker_PROCESSING_DELAY, files, rchat,
                 rentry, rgroup, rconf, tpc, sem, rlAt>>

\* shortVideo.publish answered: the counters and the record, and the loop
\* goes on without a callback
PublishDone(r) ==
  /\ pc[r] = "publish"
  /\ UNCHANGED used
  /\ \E out \in {"ok"} \cup (env.faults \cap {"api", "ratelimit"}) :
       IF out = "ok"
       THEN LET e == SetStatus(enriched[r], pidx[r], "published")
                s == Published(state[r])
            IN /\ enriched' = [enriched EXCEPT ![r] = e]
               /\ Advance(r, pidx[r] + 1, s, e, log_status, entry)
               /\ UNCHANGED calls
       ELSE /\ FailItem(r, log_status, entry)
            /\ Answered(r, out)
            /\ UNCHANGED pidx
  /\ UNCHANGED <<env, item, descs, inputsLeft, notices, current_use_group, current_top_count, current_processing_delay, worker_group_id, worker_TOP_COUNT, worker_PROCESSING_DELAY, files, rchat,
                 rentry, rgroup, rconf, tpc, sem, rlAt>>

\* the callback of the except branch returned: next record
Cb340Done(r) ==
  /\ pc[r] = "cb340"
  /\ Advance(r, pidx[r] + 1, state[r], enriched[r],
             AfterCbStatus(r, 0), AfterCbEntry(r, 0))
  /\ UNCHANGED <<env, item, descs, inputsLeft, notices, current_use_group, current_top_count, current_processing_delay, worker_group_id, worker_TOP_COUNT, worker_PROCESSING_DELAY, files, rchat,
                 rentry, rgroup, rconf, enriched, tpc, sem, rlAt, calls, used>>

\* `return state` after stage = "done", then run_cycle_for_chat's finally
Cb344Done(r) ==
  /\ pc[r] = "cb344"
  /\ log_status' = AfterCbStatus(r, 0)
  /\ entry' = Finally(AfterCbEntry(r, 0), r)
  /\ cb' = [cb EXCEPT ![r][0] = NoCb]
  /\ pc' = [pc EXCEPT ![r] = "returned"]
  /\ UNCHANGED <<env, item, descs, inputsLeft, notices, current_use_group, current_top_count, current_processing_delay, worker_group_id, worker_TOP_COUNT, worker_PROCESSING_DELAY, files, rchat,
                 rentry, rgroup, rconf, state, enriched, tpc, sem, pidx, seen, rlAt, calls, used>>

\* ------------------------------------------------ build_description
\* A string is the sequence of its characters. A value of the item dict is a
\* str or an int; chars is what an f-string renders it as.
Whitespace == {" ", "\n"}
Str(cs) == [type |-> "str", chars |-> cs]
IntVal(cs) == [type |-> "int", chars |-> cs]
None == [type |-> "None", chars |-> <<"N", "o", "n", "e">>]

\* item.get(key)
Get(it, key) == IF key \in DOMAIN it THEN it[key] ELSE None

\* the promotional text (one letter per letter), which is also the default of
\* the fallback parameter, and the separator " - " with its dash
PromoTag ==
  <<"P", "O", "D", "P", "I", "W", "I", "T", "E", "S", "Q", " ", "N", "A", " ",
    "L", "U", "C", "W", "I", "E", " ", "M", "E", "M", "Y">>
Fallback == PromoTag
Separator == <<" ", "-", " ">>
DescLimit == 999

MinOf(S) == CHOOSE x \in S : \A y \in S : x <= y

RECURSIVE Sorted(_)
Sorted(S) == IF S = {} THEN << >> ELSE <<MinOf(S)>> \o Sorted(S \ {MinOf(S)})

\* val.strip() is not empty
HasContent(cs) == \E i \in 1..Len(cs) : cs[i] \notin Whitespace

\* val.split(): the maximal runs of characters that are not whitespace
WordStarts(cs) ==
  {i \in 1..Len(cs) : cs[i] \notin Whitespace /\ (i = 1 \/ cs[i - 1] \in Whitespace)}
WordEnds(cs) ==
  {i \in 1..Len(cs) : cs[i] \notin Whitespace /\ (i = Len(cs) \/ cs[i + 1] \in Whitespace)}
Split(cs) ==
  LET st == Sorted(WordStarts(cs))
      en == Sorted(WordEnds(cs))
  IN [k \in 1..Len(st) |-> SubSeq(cs, st[k], en[k])]

\* [word for word in val.split() if word.startswith("#")]
StartsWithHash(w) == w[1] = "#"
Hashtags(cs) == SelectSeq(Split(cs), StartsWithHash)

\* one round of the loop over the text keys: what parts.extend receives
FieldTags(it, key) ==
  LET val == Get(it, key)
  IN IF val.type = "str" /\ HasContent(val.chars) THEN Hashtags(val.chars) ELSE << >>

\* f"#vkclips #top #video{owner_id}_{vid}"
GeneratedTag(it) ==
  <<"#", "v", "k", "c", "l", "i", "p", "s", " ", "#", "t", "o", "p", " ",
    "#", "v", "i", "d", "e", "o">>
    \o Get(it, "owner_id").chars \o <<"_">> \o Get(it, "id").chars

\* mutant: the parts are joined as they are, duplicates included
FromKeys_KeepAll(ps) == ps

\* dict.fromkeys(parts): the first occurrence of each part, in order
FromKeys(ps) ==
  LET keep == Sorted({i \in 1..Len(ps) : \A j \in 1..(i - 1) : ps[j] # ps[i]})
  IN [k \in 1..Len(keep) |-> ps[keep[k]]]

\* sep.join(ps)
RECURSIVE Join(_, _)
Join(sep, ps) ==
  IF ps = << >> THEN << >>
  ELSE IF Len(ps) = 1 THEN ps[1]
  ELSE ps[1] \o sep \o Join(sep, Tail(ps))

\* desc[:n]
Prefix(cs, n) == SubSeq(cs, 1, IF Len(cs) < n THEN Len(cs) ELSE n)

build_description(it, fallback) ==
  LET tags == FieldTags(it, "description") \o FieldTags(it, "title")
                \o FieldTags(it, "caption") \o FieldTags(it, "text")
      parts == Append(<<PromoTag>> \o tags, GeneratedTag(it))
      desc == IF parts # << >> THEN Join(Separator, FromKeys(parts)) ELSE fallback
  IN Prefix(desc, DescLimit)

\* desc = self.build_description(item), with the default fallback
BuildDescription ==
  /\ Len(descs) < MaxBuilds
  /\ IF descs = << >> THEN TRUE ELSE Get(item, "text") = Str(descs[Len(descs)])
  /\ descs' = Append(descs, build_description(item, Fallback))
  /\ UNCHANGED <<item, env, inputsLeft, botVars, files, runVars>>

\* the description just built becomes the text of an item with the same
\* owner_id and id: of the item it was built from, or of one with no other text
FeedBack ==
  /\ descs # << >>
  /\ Get(item, "text") # Str(descs[Len(descs)])
  /\ \E keys \in {DOMAIN item, DOMAIN item \cap {"owner_id", "id"}} :
       item' = [k \in keys \cup {"text"} |->
                  IF k = "text" THEN Str(descs[Len(descs)]) ELSE item[k]]
  /\ UNCHANGED <<descs, env, inputsLeft, botVars, files, runVars>>

\* ------------------------------------------------------ specifications
Next ==
  \/ \E c \in Chats : RunRequest(c)
  \/ \E c \in Chats : AutoDelay(c)
  \/ TogglePublishMode
  \/ DecreaseTopCount \/ IncreaseTopCount \/ DecreaseDelay \/ IncreaseDelay
  \/ \E r \in Runs :
       \/ AutoMsgDone(r) \/ ErrMsgDone(r)
       \/ Cb249Done(r) \/ Cb253Done(r) \/ FetchDone(r) \/ Cb258Done(r) \/ Cb262Done(r)
       \/ GatherDone(r) \/ GatherRaise(r)
       \/ Cb310Done(r) \/ CreateDone(r) \/ UploadDone(r) \/ SleepDone(r)
       \/ EditDone(r) \/ PublishDone(r) \/ Cb340Done(r) \/ Cb344Done(r)
       \/ \E k \in Coros : CbRaise(r, k)
       \/ \E i \in Items :
            \/ TaskStart(r, i) \/ Cb272Done(r, i) \/ DownloadDone(r, i)
            \/ Cb279Done(r, i) \/ Cb287Done(r, i) \/ UniqueizeDone(r, i)
            \/ Cb297Done(r, i)

Envs(chatSet, tops, lives, faultSets) ==
  [chats : {chatSet}, top : tops, live : lives, faults : faultSets]

\* One chat and one user input. Either a chat without a log message, up to
\* MaxItems candidates and every fault of the pipeline; or a chat that has one,
\* one candidate less, and the bot calls (callbacks, notices) may raise too.
InitCycle ==
  \/ InitWith(Envs({1}, 0..MaxItems, {Items}, {FaultKinds \ {"cb", "botmsg"}}),
              1, {"none"}, {FALSE}, {FALSE})
  \/ InitWith(Envs({1}, 0..(MaxItems - 1), {Items},
                   {{"cb", "botmsg", "download", "transform", "api"}}),
              1, {"full"}, BOOLEAN, {FALSE})
SpecCycle == InitCycle /\ [][Next]_vars

\* One chat and one user input. Either one candidate more than the semaphore
\* has permits, whose links can all be downloaded or are all dead, and nothing
\* else fails; or one candidate and the faults of the bot and the provider.
InitSem ==
  \/ InitWith(Envs({1}, {SemaphorePermits + 1}, {Items, {}}, {{}}),
              1, {"none"}, {FALSE}, {FALSE})
  \/ InitWith(Envs({1}, {1}, {Items}, {{"cb", "botmsg", "api", "fetch"}}), 1, {"full"}, BOOLEAN, {FALSE})
SpecSem == InitSem /\ [][Next]_vars

\* MaxInputs user inputs and a top list of BotItems candidates. Either two
\* chats that pass the ADMIN_CHAT_ID guard (it is unset), each with its log
\* message; or one chat that has no log message yet, and callbacks may raise.
InitBot ==
  \/ InitWith(Envs(Chats, {BotItems}, {Items}, {{"fetch", "download"}}),
              MaxInputs, {"full"}, {FALSE}, BOOLEAN)
  \/ InitWith(Envs({1}, {BotItems}, {Items}, {{"cb"}}),
              MaxInputs, {"none"}, {FALSE}, {FALSE})
SpecBot == InitBot /\ [][Next]_vars

\* build_description on its own: the items it is given
LongTag == [i \in 1..(DescLimit + 1) |-> IF i = 1 THEN "#" ELSE "a"]
Texts ==
  {<< >>, <<" ">>, <<"a">>, <<"#", "a">>, <<"#", "a", " ", "#", "b">>,
   <<"x", " ", "#", "a", "\n", "#", "a">>, <<"a", "#", "b", " ", " ", "#">>, LongTag}
TextValues == {Str(t) : t \in Texts} \cup {IntVal(<<"7">>)}
Ids == {IntVal(<<"1">>), IntVal(<<"-", "2", "3">>)}
DescItems ==
  UNION {[keys -> TextValues \cup Ids] :
           keys \in SUBSET {"description", "title", "text", "owner_id", "id"}}
ItemOk(it) ==
  /\ \A k \in DOMAIN it \cap {"owner_id", "id"} : it[k] \in Ids
  /\ \A k \in DOMAIN it \ {"owner_id", "id"} : it[k] \in TextValues
  /\ "text" \in DOMAIN it => it["text"] \in {Str(<<"#", "a">>), Str(<< >>)}
  /\ "id" \in DOMAIN it => it["id"] = IntVal(<<"1">>)

NextDesc == BuildDescription \/ FeedBack

InitDesc ==
  /\ InitIdle(Envs({}, {0}, {{}}, {{}}), 0, {"none"}, {FALSE}, {FALSE})
  /\ item \in {it \in DescItems : ItemOk(it)}
  /\ descs = << >>
SpecDesc == InitDesc /\ [][NextDesc]_vars

\* build_description on items with all four text keys: hashtags shared by two
\* fields, text around them, a tag longer than the limit, a value that is not
\* a string
ComposeTexts ==
  {Str(<<"#", "a", " ", "#", "b">>), Str(<<"x", " ", "#", "b", "\n", "#", "c">>),
   Str(LongTag), IntVal(<<"7">>)}
ComposeItems ==
  UNION {[keys -> ComposeTexts \cup Ids] :
           keys \in SUBSET {"description", "title", "caption", "text", "owner_id", "id"}}
ComposeOk(it) ==
  /\ \A k \in DOMAIN it \cap {"owner_id", "id"} : it[k] \in Ids
  /\ \A k \in DOMAIN it \ {"owner_id", "id"} : it[k] \in ComposeTexts
  /\ "id" \in DOMAIN it => it["id"] = IntVal(<<"1">>)

InitCompose ==
  /\ InitIdle(Envs({}, {0}, {{}}, {{}}), 0, {"none"}, {FALSE}, {FALSE})
  /\ item \in {it \in ComposeItems : ComposeOk(it)}
  /\ descs = << >>
SpecCompose == InitCompose /\ [][NextDesc]_vars

\* ================================================================ claims
\* run_cycle of run r has started and has neither returned nor raised
InFlight(r) == pc[r] \notin {"idle", "auto_msg", "err_msg", "failed", "returned"}

\* C1: single-flight per session: at no moment are two run_cycle executions
\* of the same chat in flight.
C1_SingleFlight ==
  \A r \in Runs : \A q \in Runs :
    (r # q /\ InFlight(r) /\ InFlight(q)) => rchat[r] # rchat[q]

\* C2: published <= uploaded <= downloaded <= total in every snapshot. The
\* state changes only in steps that end by calling progress_cb(state), so the
\* snapshots are the values state takes.
Ordered(s) == s.published <= s.uploaded /\ s.uploaded <= s.downloaded /\ s.downloaded <= s.total
C2_CountersOrdered == \A r \in Runs : Ordered(state[r])

C2_Witness ==
  \E r \in Runs : /\ cb[r][0] # NoCb
                  /\ state[r].published = 1
                  /\ state[r].downloaded = 2
                  /\ state[r].total = 3

\* C3: once shortVideo.create has answered the k-th record with the rate-limit
\* error, no remote call is made for a later record, and the state returned is
\* not the stage = "done" state of a normal completion.
C3_HaltAfterRateLimit ==
  \A r \in Runs :
    rlAt[r] # 0 =>
      /\ pidx[r] > rlAt[r] => pc[r] \notin {"create", "upload", "sleep", "edit", "publish"}
      /\ pc[r] = "returned" => state[r].stage # "done"

\* C4: the number of process_item tasks inside `async with semaphore` never
\* exceeds the semaphore's 5 permits.
Holding(r) ==
  {i \in Items : tpc[r][i] \in {"cb272", "download", "cb279", "cb287", "uniqueize", "cb297"}}

C4_PermitsBounded == \A r \in Runs : Cardinality(Holding(r)) <= SemaphorePermits

C4_Witness ==
  \E r \in Runs : /\ Cardinality(Holding(r)) = SemaphorePermits
                  /\ (SemaphorePermits + 1) \in Holding(r)
                  /\ \E i \in Items : tpc[r][i] = "done"

\* C5: the progress callback is never invoked concurrently: at any moment of
\* a cycle at most one invocation has started and not yet finished.
C5_CallbackSerial ==
  \A r \in Runs : Cardinality({k \in Coros : cb[r][k] # NoCb}) <= 1

\* C6: when a cycle has completed, total is the number of candidates fetched,
\* there is exactly one record per candidate, and every record holds one of
\* the enumerated terminal statuses.
TerminalStatuses ==
  {"download_failed", "uniqueize_failed", "uploaded", "upload_failed", "published"}

C6_TerminalStatuses ==
  \A r \in Runs :
    pc[r] = "returned" =>
      /\ state[r].total \in {0, env.top}
      /\ Len(enriched[r]) = state[r].total
      /\ \A i \in 1..state[r].total :
           Cardinality({j \in 1..Len(enriched[r]) : enriched[r][j].item = i}) = 1
      /\ \A j \in 1..Len(enriched[r]) : enriched[r][j].status \in TerminalStatuses

C6_Witness ==
  \E r \in Runs :
    /\ pc[r] = "returned"
    /\ state[r].total = 3
    /\ \E j \in 1..Len(enriched[r]) : enriched[r][j].status = "published"
    /\ \E j \in 1..Len(enriched[r]) : enriched[r][j].status = "upload_failed"
    /\ \E j \in 1..Len(enriched[r]) : enriched[r][j].status = "download_failed"

\* C7: with an empty top list the stages of the snapshots and of the returned
\* state are init, fetch_top, done, and total is 0.
C7_EmptyTopDone ==
  \A r \in Runs :
    (pc[r] = "returned" /\ state[r].total = 0) =>
      Observe(seen[r], state[r].stage) = <<"init", "fetch_top", "done">>

\* C8: a run request that starts no cycle (it is rejected) changes nothing but
\* the notice it sends: log_status, the dicts with busy, use_auto_delay and
\* last_state, the worker's group_id, VIDEOS_DIR and every cycle's state,
\* records and position stay as they were.
C8_RejectedMutatesNothing ==
  [][((\E c \in Chats : RunRequest(c)) /\ pc' = pc) =>
       UNCHANGED <<log_status, entry, current_use_group, current_top_count, current_processing_delay, worker_group_id, worker_TOP_COUNT, worker_PROCESSING_DELAY, files, rchat,
                   rentry, rgroup, rconf, state, enriched, tpc, sem, pidx, cb, seen, rlAt, calls, used>>]_vars

C8_Witness ==
  \E c \in Chats :
    /\ notices[c] > 0
    /\ \E r \in Runs : InFlight(r) /\ rchat[r] = c /\ entry[c][rentry[r]].busy

\* C9: a cycle whose chat differs from the chat of every other cycle keeps,
\* while it is in flight, the group_id it gave the worker and the files its
\* tasks and records hold in VIDEOS_DIR.
AssetsIntact(r) ==
  /\ \A i \in Items : tpc[r][i] \in {"cb287", "uniqueize"} => <<i, "orig">> \in files
  /\ \A j \in 1..Len(enriched[r]) :
       enriched[r][j].status = "uniqueized" => <<enriched[r][j].item, "unique">> \in files

C9_SessionsIndependent ==
  \A r \in Runs :
    (InFlight(r) /\ \A q \in Runs \ {r} : rchat[q] # rchat[r]) =>
      /\ worker_group_id = rgroup[r]
      /\ AssetsIntact(r)

\* C10: when a cycle has run to completion, with a records download_failed,
\* b uniqueize_failed, c upload_failed and the others published: failed = a+b+c,
\* downloaded = N-a, uniqueized = N-a-b, uploaded = published = N-a-b-c.
CountStatus(e, st) == Cardinality({j \in 1..Len(e) : e[j].status = st})

C10_CounterAccounting ==
  \A r \in Runs :
    (pc[r] = "returned" /\ state[r].stage = "done") =>
      LET s == state[r]
          a == CountStatus(enriched[r], "download_failed")
          b == CountStatus(enriched[r], "uniqueize_failed")
          c == CountStatus(enriched[r], "upload_failed")
      IN /\ s.failed = a + b + c
         /\ s.downloaded = s.total - a
         /\ s.uniqueized = s.total - a - b
         /\ s.uploaded = s.total - a - b - c
         /\ s.published = s.total - a - b - c
         /\ s.published = CountStatus(enriched[r], "published")

C10_Witness ==
  \E r \in Runs :
    /\ pc[r] = "returned" /\ state[r].stage = "done" /\ state[r].total = 3
    /\ CountStatus(enriched[r], "download_failed") = 1
    /\ CountStatus(enriched[r], "uniqueize_failed") = 1
    /\ CountStatus(enriched[r], "published") = 1
    /\ state[r].failed = 2 /\ state[r].downloaded = 2 /\ state[r].uniqueized = 1
    /\ state[r].uploaded = 1 /\ state[r].published = 1

\* C11: once run_cycle has been called it returns a state to its caller: no
\* step takes a cycle that is about to start or is in flight to the except
\* branch of run_cycle_for_chat, whatever clean_videos_dir, the fetch, the
\* downloads, the transforms, the publish calls and the callbacks do. (A cycle
\* leaves "idle" for the except branch only when run_cycle itself raised: on
\* that path nothing else is awaited before run_cycle.)
C11_AlwaysReturns ==
  [][\A r \in Runs : (pc[r] = "idle" \/ InFlight(r)) => pc'[r] # "err_msg"]_vars

\* C12: build_description is idempotent on its own output: the description of
\* an item whose text is the description built before, for the same owner_id
\* and id, is that description again.
C12_Idempotent == \A k \in 2..Len(descs) : descs[k] = descs[k - 1]

\* C13: a reserve (shortVideo.create) answered with the rate-limit error is
\* retried, at most 3 attempts in all, and only the third failure makes the
\* reserve fatal for the record; any other error of the reserve is fatal at
\* once. So a record that the rate limit hit and that failed before any upload
\* has had 3 create calls, and in a cycle the rate limit never hit, a record
\* that failed before any upload has had at most one.
Count(sq, x) == Cardinality({k \in 1..Len(sq) : sq[k] = x})
FailedAtReserve(r, j) ==
  /\ j \in 1..Len(enriched[r])
  /\ enriched[r][j].status = "upload_failed"
  /\ Count(calls[r][j], "upload") = 0

C13_ReserveBackoff ==
  \A r \in Runs :
    /\ \A j \in Items : Count(calls[r][j], "create") <= 3
    /\ FailedAtReserve(r, rlAt[r]) => Count(calls[r][rlAt[r]], "create") = 3
    /\ rlAt[r] = 0 => \A j \in Items :
                        FailedAtReserve(r, j) => Count(calls[r][j], "create") <= 1

\* C14: once shortVideo.edit or shortVideo.publish has answered a record with
\* the rate-limit error, the publish stage and the run halt: no remote step is
\* begun for a later record, and every later record keeps the status it had
\* before the publish stage.
LateRateLimit(r, j) ==
  \E k \in 2..Len(calls[r][j]) :
    calls[r][j][k] = "rate_limited" /\ calls[r][j][k - 1] \in {"edit", "publish"}

C14_HaltOnLateRateLimit ==
  \A r \in Runs : \A j \in 1..Len(enriched[r]) :
    LateRateLimit(r, j) =>
      \A q \in (j + 1)..Len(enriched[r]) :
        /\ calls[r][q] = << >>
        /\ enriched[r][q].status \in {"download_failed", "uniqueize_failed", "uniqueized"}

\* C15: an item's error never aborts its siblings. Every failure is counted in
\* failed when it is recorded; once the tasks are over every candidate has its
\* record, whatever failed before it; the publish loop has attempted every
\* record with an asset that precedes the one it is at, whatever failed before
\* it, and when the cycle returns with stage done it has attempted them all.
FailedStatuses == {"download_failed", "uniqueize_failed", "upload_failed"}
Attempted(rec) == rec.path # "none" => rec.status \in {"published", "upload_failed"}

C15_SiblingsNotAborted ==
  \A r \in Runs :
    LET e == enriched[r]
    IN /\ state[r].failed = Cardinality({j \in 1..Len(e) : e[j].status \in FailedStatuses})
       /\ pidx[r] >= 1 => Len(e) = state[r].total
       /\ \A j \in 1..Len(e) : j < pidx[r] => Attempted(e[j])
       /\ (pc[r] = "returned" /\ state[r].stage = "done") =>
            \A j \in 1..Len(e) : Attempted(e[j])

C15_Witness ==
  \E r \in Runs :
    LET e == enriched[r]
    IN /\ pc[r] = "returned"
       /\ \E j \in 1..Len(e) : \E q \in (j + 1)..Len(e) :
            /\ e[j].status = "upload_failed"
            /\ Count(calls[r][j], "rate_limited") = 0
            /\ e[q].status = "published"
       /\ \E j \in 1..Len(e) : \E q \in (j + 1)..Len(e) :
            e[j].status = "download_failed" /\ e[q].path # "none"

\* C16: the publish stage comes strictly after retrieval and transform: while
\* the publish loop is at a record, and whenever a remote step has been begun
\* for any record, no candidate's task is waiting or running.
InPublish(r) == pc[r] \in {"cb310", "create", "upload", "sleep", "edit", "publish", "cb340"}
TasksOver(r) == \A i \in Items : tpc[r][i] \in {"none", "done"}

C16_PublishAfterRetrieval ==
  \A r \in Runs :
    (InPublish(r) \/ \E j \in Items : calls[r][j] # << >>) => TasksOver(r)

C16_Witness ==
  \E r \in Runs :
    /\ pc[r] = "upload"
    /\ state[r].total = MaxItems
    /\ \E i \in Items : tpc[r][i] = "done"
    /\ \E j \in 1..Len(enriched[r]) : enriched[r][j].status = "uniqueize_failed"

\* C17: the publish protocol. Only a record with an asset enters the publish
\* stage; the steps begun for a record are, in this order, reserve, upload,
\* settle delay, setMetadata, publish, each once, and none after a step that
\* failed; a record is published only when all five succeeded; and no step
\* is begun for a record while an earlier record with an asset is neither
\* published nor upload_failed.
Protocol == <<"create", "upload", "sleep", "edit", "publish">>
Steps(sq) == SelectSeq(sq, LAMBDA x : x # "rate_limited")
InStep(r) == pc[r] \in {"create", "upload", "sleep", "edit", "publish"}

C17_ProtocolOrder ==
  \A r \in Runs :
    LET e == enriched[r]
    IN /\ \A j \in Items :
            LET c == calls[r][j]
            IN /\ Len(Steps(c)) <= Len(Protocol)
               /\ Steps(c) = SubSeq(Protocol, 1, Len(Steps(c)))
               /\ \A k \in 1..Len(c) : c[k] = "rate_limited" => k = Len(c)
               /\ Count(c, "upload") <= 1
               /\ c # << >> => j <= Len(e) /\ e[j].path # "none"
               /\ c # << >> => \A q \in 1..(j - 1) :
                                 e[q].path # "none" =>
                                   e[q].status \in {"published", "upload_failed"}
       /\ \A j \in 1..Len(e) :
            /\ e[j].path = "none" => e[j].status \in {"download_failed", "uniqueize_failed"}
            /\ e[j].status = "published" => calls[r][j] = Protocol
            /\ e[j].status \in {"published", "upload_failed"} => ~(InStep(r) /\ pidx[r] = j)
       /\ InStep(r) => /\ calls[r][pidx[r]] # << >>
                       /\ calls[r][pidx[r]][Len(calls[r][pidx[r]])] = pc[r]

C17_Witness ==
  \E r \in Runs :
    LET e == enriched[r]
    IN /\ pc[r] = "returned"
       /\ \E j \in 1..Len(e) : e[j].status = "published" /\ calls[r][j] = Protocol
       /\ \E j \in 1..Len(e) : /\ e[j].status = "upload_failed"
                               /\ calls[r][j] = <<"create", "upload">>
       /\ \E j \in 1..Len(e) : e[j].path = "none"

\* C18: the callback is invoked after every state-affecting event, before the
\* next one: no invocation is the first to report two events. Every event
\* appends one line to state["messages"] (the change to stage "fetch_top"
\* appends none, the change to "done" comes with its line), and every step
\* that changes the state ends by invoking the callback with it, so the
\* snapshot of an invocation holds at most one line more than the state held
\* before the step.
C18_CallbackPerEvent ==
  [][\A r \in Runs : state'[r].nmsgs <= state[r].nmsgs + 1]_vars

\* C19: a cycle uses the configuration in force when it started: the count it
\* passes to the list fetch is the count run_cycle_for_chat gave the worker,
\* its settle delay is twice the delay it gave the worker, and the group_id
\* its publish calls go by is the one it gave the worker.
C19_ConfigAtStart ==
  \A r \in Runs :
    /\ used[r].count # Unset => used[r].count = rconf[r].top
    /\ used[r].sleep # Unset => used[r].sleep = 2 * rconf[r].delay
    /\ used[r].create_group # "unread" => used[r].create_group = rgroup[r]
    /\ used[r].edit_group # "unread" => used[r].edit_group = rgroup[r]

\* C20: the retrieval stage ends with every permit released and a record for
\* every candidate, whether the downloads, the transforms and the callbacks
\* returned or raised: once the tasks have been created and none of them is
\* waiting or running, the semaphore is back at its 5 permits and enriched
\* holds one record per candidate.
RetrievalOver(r) ==
  /\ \E i \in Items : tpc[r][i] # "none"
  /\ \A i \in Items : tpc[r][i] \in {"none", "done", "raised"}

C20_RetrievalEnds ==
  \A r \in Runs :
    RetrievalOver(r) =>
      /\ sem[r] = SemaphorePermits
      /\ \A i \in 1..state[r].total :
           \E j \in 1..Len(enriched[r]) : enriched[r][j].item = i

\* C21: a download whose duration is over the 60 s threshold is a per-item
\* failure and leaves no file of that item in VIDEOS_DIR: the record of such
\* an item is download_failed, it is counted in failed, and the directory
\* holds neither its download nor a transformed copy.
FilesOf(i) == {f \in files : f[1] = i}

C21_RejectedLeavesNoFile ==
  \A r \in Runs : \A j \in 1..Len(enriched[r]) :
    enriched[r][j].duration = "over" =>
      /\ enriched[r][j].status = "download_failed"
      /\ state[r].failed >= 1
      /\ FilesOf(enriched[r][j].item) = {}

\* C22: the files a transform leaves. After a transform that succeeded the
\* original is gone and the transformed asset is on disk; after one that
\* failed no transformed asset of the item is on disk, the record is
\* uniqueize_failed and holds no asset, and the item's task runs no second
\* transform.
C22_TransformFiles ==
  \A r \in Runs : \A j \in 1..Len(enriched[r]) :
    LET rec == enriched[r][j]
    IN /\ rec.path # "none" =>
            /\ <<rec.item, "orig">> \notin files
            /\ <<rec.item, "unique">> \in files
       /\ rec.status = "uniqueize_failed" =>
            /\ <<rec.item, "unique">> \notin files
            /\ rec.path = "none"
            /\ tpc[r][rec.item] \in {"cb297", "done", "raised"}

\* C23: the composition of a description. The hashtag tokens of a text are
\* its maximal whitespace-free runs that begin with "#", in the order they
\* stand; the tokens of description, title, caption and text, in that order,
\* are cut down to the first occurrence of each; the promotional tag comes
\* first and the generated tag last, joined by the separator; the result is
\* the first 999 characters of that, so it is never longer than 999.
TagStarts(cs) ==
  {a \in 1..Len(cs) : cs[a] = "#" /\ (a = 1 \/ cs[a - 1] \in Whitespace)}
TagEnd(cs, a) ==
  CHOOSE b \in a..Len(cs) :
    /\ b = Len(cs) \/ cs[b + 1] \in Whitespace
    /\ \A k \in a..b : cs[k] \notin Whitespace
TagsOf(val) ==
  IF val.type # "str" THEN << >>
  ELSE LET cs == val.chars
           H == TagStarts(cs)
       IN [k \in 1..Cardinality(H) |->
             LET a == CHOOSE x \in H : Cardinality({y \in H : y < x}) = k - 1
             IN SubSeq(cs, a, TagEnd(cs, a))]

RECURSIVE FirstSeen(_)
FirstSeen(ts) ==
  IF ts = << >> THEN << >>
  ELSE LET front == FirstSeen(SubSeq(ts, 1, Len(ts) - 1))
           last == ts[Len(ts)]
       IN IF \E k \in 1..Len(front) : front[k] = last THEN front
                                                        ELSE Append(front, last)

RECURSIVE Glued(_)
Glued(ps) ==
  IF Len(ps) = 1 THEN ps[1]
  ELSE Glued(SubSeq(ps, 1, Len(ps) - 1)) \o Separator \o ps[Len(ps)]

Composed(it) ==
  Glued(<<PromoTag>>
        \o FirstSeen(TagsOf(Get(it, "description")) \o TagsOf(Get(it, "title"))
                       \o TagsOf(Get(it, "caption")) \o TagsOf(Get(it, "text")))
        \o <<GeneratedTag(it)>>)

C23_Composition ==
  [][descs' # descs =>
       LET d == descs'[Len(descs')]
       IN /\ Len(d) <= DescLimit
          /\ Len(d) < DescLimit => d = Composed(item)
          /\ Len(d) >= DescLimit => d = SubSeq(Composed(item), 1, DescLimit)]_vars

C23_Witness ==
  /\ DOMAIN item = {"description", "caption", "owner_id", "id"}
  /\ item["description"] = Str(<<"#", "a", " ", "#", "b">>)
  /\ item["caption"] = Str(<<"x", " ", "#", "b", "\n", "#", "c">>)
  /\ Len(descs) = 1
  /\ descs[1] = PromoTag \o Separator \o <<"#", "a">> \o Separator \o <<"#", "b">>
                   \o Separator \o <<"#", "c">> \o Separator \o GeneratedTag(item)

\* C24: when none of the item's text fields yields content (each of
\* description, title, caption and text is missing, is not a string, or is
\* blank), build_description returns exactly the default fallback description.
Blank(cs) == \A k \in 1..Len(cs) : cs[k] \in Whitespace
NoContent(it) ==
  \A key \in {"description", "title", "caption", "text"} :
    Get(it, key).type = "str" => Blank(Get(it, key).chars)

C24_Fallback ==
  [][(descs' # descs /\ NoContent(item)) => descs'[Len(descs')] = Fallback]_vars

\* C25: the single-flight guard is always released. Whenever a call of
\* run_cycle_for_chat that started a cycle ends, after run_cycle returned or
\* raised, the dict the chat's next run request will consult has busy false
\* and use_auto_delay false: the next request is accepted.
Ended(p) == p \in {"returned", "failed"}

C25_GuardReleased ==
  [][\A r \in Runs :
       (~Ended(pc[r]) /\ Ended(pc'[r])) =>
         LET c == rchat[r]
         IN /\ ~entry'[c][log_status'[c]].busy
            /\ ~entry'[c][log_status'[c]].use_auto_delay]_vars

\* C26: every candidate is counted at most once as an outcome. In every
\* snapshot failed + published <= total and uniqueized <= downloaded, and in
\* the stage = "done" snapshot of a cycle with a non-empty list
\* failed + published = total. (The state changes only in steps that end by
\* calling progress_cb(state), so the snapshots are the values state takes.)
CountedOnce(s) ==
  /\ s.failed + s.published <= s.total
  /\ s.uniqueized <= s.downloaded
  /\ (s.stage = "done" /\ s.total > 0) => s.failed + s.published = s.total

C26_CountedOnce == \A r \in Runs : CountedOnce(state[r])

C26_Witness ==
  \E r \in Runs :
    /\ cb[r][0] # NoCb
    /\ state[r].stage = "done"
    /\ state[r].total = 3
    /\ state[r].failed = 2
    /\ state[r].published = 1
    /\ \E j \in 1..Len(enriched[r]) : enriched[r][j].status = "upload_failed"

\* C27: uploaded and published are always equal. uploaded is incremented
\* only together with published, once the publish call has succeeded: both
\* equal the number of published records in every snapshot; a record whose
\* file upload succeeded and whose edit or publish call failed is
\* upload_failed, counted in failed and not in uploaded; and no record ever
\* holds the status "uploaded".
UploadSucceeded(r, j) == Count(calls[r][j], "sleep") = 1

C27_UploadedIsPublished ==
  \A r \in Runs :
    LET e == enriched[r]
        s == state[r]
    IN /\ s.uploaded = s.published
       /\ s.uploaded = CountStatus(e, "published")
       /\ \A j \in 1..Len(e) :
            /\ e[j].status # "uploaded"
            /\ (UploadSucceeded(r, j) /\ e[j].status # "published"
                   /\ ~(InStep(r) /\ pidx[r] = j)) =>
                  /\ e[j].status = "upload_failed"
                  /\ s.failed >= 1
                  /\ s.uploaded <= Len(e) - 1

C27_Witness ==
  \E r \in Runs :
    /\ pc[r] = "returned"
    /\ state[r].uploaded = 1
    /\ state[r].published = 1
    /\ state[r].failed = 2
    /\ \E j \in 1..Len(enriched[r]) :
         /\ enriched[r][j].status = "upload_failed"
         /\ calls[r][j] = <<"create", "upload", "sleep", "edit", "publish">>
    /\ \E j \in 1..Len(enriched[r]) :
         /\ enriched[r][j].status = "upload_failed"
         /\ calls[r][j] = <<"create", "upload", "sleep", "edit">>

====
